---- MODULE Spec2Model ----
(***************************************************************************)
(* Model of src/src/extraction/whatsapp_logs.py: the transcript parser,    *)
(* the batch orchestrator run_extraction and the two dedup loaders         *)
(* (load_to_csv, load_to_postgres).                                        *)
(*                                                                         *)
(* Text is modelled as a sequence of one-character strings, except that    *)
(* the fixed phrases of the event patterns are single tokens.              *)
(***************************************************************************)
EXTENDS Integers, Sequences, FiniteSets, TLC

VARIABLES
    local,   \* the --local flag: flat-file sink instead of the relational one
    csv,     \* the file at LOCAL_CSV_PATH
    table,   \* the table RAW_TABLE_NAME
    last,    \* the last loader call: its arguments, what it reported, the sink before
    pf,      \* one parse_chat_file call: its arguments, loop position and events
    cls,     \* one message and how it is classified, plain and behind a U+200E
    run      \* one run_extraction call: its input, position, tunnel and calls made

vars == <<local, csv, table, last, pf, cls, run>>

\* ------------------------------------------------------------------ bounds
\* Longest batch handed to a loader.
MaxBatch == 2
\* Largest chunk_size tried for load_to_postgres.
MaxChunk == 2

\* ------------------------------------------------------------ generic helpers
RECURSIVE Concat(_)
Concat(ss) == IF ss = <<>> THEN <<>> ELSE Head(ss) \o Concat(Tail(ss))

SeqsUpTo(S, n) == UNION { [1..k -> S] : k \in 0..n }

Min(a, b) == IF a < b THEN a ELSE b

\* ------------------------------------------------------------ typed values
\* A DataFrame cell: k is the Python type of the value ("str", "int" for a
\* numpy int64, "dt" for a datetime/Timestamp), v its text.
StrV(t) == [k |-> "str", v |-> t]
IntV(t) == [k |-> "int", v |-> t]
DtV(t)  == [k |-> "dt",  v |-> t]

\* An event dict as parse_chat_file builds it.
Event(ts, gn, uph, et) ==
    [timestamp |-> DtV(ts), group_name |-> StrV(gn),
     user_phone_hash |-> StrV(uph), event_type |-> StrV(et)]

\* The events the loaders are driven with: a phone subject at two minutes
\* and an alias subject.
LoadEvents ==
    { Event(<<"t1">>, <<"g">>, <<"+", "1">>, <<"joined">>),
      Event(<<"t2">>, <<"g">>, <<"+", "1">>, <<"joined">>),
      Event(<<"t1">>, <<"g">>, <<"~", "a">>, <<"added">>) }

\* ------------------------------------------------------------ flat-file sink
\* The destination file: exists, and its data rows as written text (one record
\* of cell texts per line after the header).
NoFile == [exists |-> FALSE, rows |-> <<>>]

Digits == {"0", "1", "2", "3", "4", "5", "6", "7", "8", "9"}

\* pd.read_csv's integer parse of a cell: optional sign, then digits only.
IsIntText(t) ==
    LET body == IF t # <<>> /\ Head(t) \in {"+", "-"} THEN Tail(t) ELSE t
    IN  body # <<>> /\ \A i \in 1..Len(body) : body[i] \in Digits

RECURSIVE StripZeros(_)
StripZeros(t) ==
    IF Len(t) > 1 /\ Head(t) = "0" THEN StripZeros(Tail(t)) ELSE t

\* The text to_csv writes for the int64 that read_csv parsed from t.
IntText(t) ==
    LET neg  == Head(t) = "-"
        body == StripZeros(IF Head(t) \in {"+", "-"} THEN Tail(t) ELSE t)
    IN  IF neg /\ body # <<"0">> THEN <<"-">> \o body ELSE body

\* pd.read_csv(LOCAL_CSV_PATH): a column whose every cell parses as an integer
\* becomes an int64 column, any other column keeps its strings.
ReadCsv(file) ==
    LET rows == file.rows
        IsIntCol(c) == rows # <<>> /\ \A i \in 1..Len(rows) : IsIntText(rows[i][c])
        Cell(i, c) == IF IsIntCol(c) THEN IntV(IntText(rows[i][c]))
                                     ELSE StrV(rows[i][c])
    IN  [i \in 1..Len(rows) |->
            [timestamp       |-> Cell(i, "timestamp"),
             group_name      |-> Cell(i, "group_name"),
             user_phone_hash |-> Cell(i, "user_phone_hash"),
             event_type      |-> Cell(i, "event_type")]]

\* combined["timestamp"] = pd.to_datetime(combined["timestamp"]).astype(str)
NormalizeTimestamp(rows) ==
    [i \in 1..Len(rows) |-> [rows[i] EXCEPT !.timestamp = StrV(rows[i].timestamp.v)]]

\* DataFrame.drop_duplicates(subset=<the four columns>): keep="first".
DropDuplicates(rows) ==
    LET Keep(i) == \A j \in 1..(i - 1) : rows[j] # rows[i]
    IN  SelectSeq([i \in 1..Len(rows) |-> [idx |-> i, row |-> rows[i]]],
                  LAMBDA x : Keep(x.idx))

Rows(indexed) == [i \in 1..Len(indexed) |-> indexed[i].row]

\* combined.to_csv(LOCAL_CSV_PATH, index=False): every cell as its text.
ToCsv(rows) ==
    [exists |-> TRUE,
     rows   |-> [i \in 1..Len(rows) |->
                    [timestamp       |-> rows[i].timestamp.v,
                     group_name      |-> rows[i].group_name.v,
                     user_phone_hash |-> rows[i].user_phone_hash.v,
                     event_type      |-> rows[i].event_type.v]]]

\* load_to_csv(df). df is pd.DataFrame(events): with no events it has no
\* columns, and combined["timestamp"] on the copy raises KeyError.
LoadToCsvOp(file, df) ==
    IF file.exists
    THEN LET existing == ReadCsv(file)
             combined == Rows(DropDuplicates(NormalizeTimestamp(existing \o df)))
             new_rows == Len(combined) - Len(existing)
         IN  [file |-> ToCsv(combined), new_rows |-> new_rows,
              skipped |-> Len(df) - new_rows, raised |-> FALSE]
    ELSE IF df = <<>>
         THEN [file |-> file, new_rows |-> 0, skipped |-> 0, raised |-> TRUE]
         ELSE LET combined == NormalizeTimestamp(df)
                  new_rows == Len(combined)
              IN  [file |-> ToCsv(combined), new_rows |-> new_rows,
                   skipped |-> Len(df) - new_rows, raised |-> FALSE]

\* ------------------------------------------------------------ relational sink
\* raw_whatsapp_logs: exists, and its rows in insertion order.
NoTable == [exists |-> FALSE, rows |-> <<>>]

\* The values bound to :ts_j, :gn_j, :uph_j, :et_j for one record.
SqlRow(rec) ==
    [timestamp       |-> rec.timestamp.v,
     group_name      |-> rec.group_name.v,
     user_phone_hash |-> rec.user_phone_hash.v,
     event_type      |-> rec.event_type.v]

\* CREATE TABLE IF NOT EXISTS ... UNIQUE (the four columns)
EnsureTable(tbl) == IF tbl.exists THEN tbl ELSE [exists |-> TRUE, rows |-> <<>>]

\* One INSERT ... VALUES <chunk> ON CONFLICT (the four columns) DO NOTHING:
\* a row is skipped when the table, or an earlier row of the same statement,
\* already holds its key. rowcount is the number of rows inserted.
RECURSIVE InsertChunk(_, _)
\* Mutant: rowcount counts the rows submitted, not the rows inserted.
RECURSIVE InsertChunkSubmitted(_, _)
InsertChunkSubmitted(rows, chunk) ==
    IF chunk = <<>>
    THEN [rows |-> rows, rowcount |-> 0]
    ELSE LET r       == SqlRow(Head(chunk))
             present == \E i \in 1..Len(rows) : rows[i] = r
             rest    == InsertChunkSubmitted(
                            IF present THEN rows ELSE Append(rows, r), Tail(chunk))
         IN  [rows |-> rest.rows, rowcount |-> rest.rowcount + 1]

InsertChunk(rows, chunk) ==
    IF chunk = <<>>
    THEN [rows |-> rows, rowcount |-> 0]
    ELSE LET r       == SqlRow(Head(chunk))
             present == \E i \in 1..Len(rows) : rows[i] = r
             rest    == InsertChunk(IF present THEN rows ELSE Append(rows, r),
                                    Tail(chunk))
         IN  [rows |-> rest.rows,
              rowcount |-> rest.rowcount + (IF present THEN 0 ELSE 1)]

\* for i in range(0, len(records), chunk_size): chunk = records[i:i+chunk_size]
RECURSIVE InsertChunks(_, _, _, _)
InsertChunks(rows, records, i, chunk_size) ==
    IF i >= Len(records)
    THEN [rows |-> rows, total_new |-> 0]
    ELSE LET chunk  == SubSeq(records, i + 1, Min(i + chunk_size, Len(records)))
             result == InsertChunk(rows, chunk)
             rest   == InsertChunks(result.rows, records, i + chunk_size, chunk_size)
         IN  [rows |-> rest.rows, total_new |-> result.rowcount + rest.total_new]

\* load_to_postgres(df, engine, chunk_size)
LoadToPostgresOp(tbl, df, chunk_size) ==
    IF df = <<>>
    THEN [table |-> tbl, total_new |-> 0, skipped |-> 0]
    ELSE LET t == EnsureTable(tbl)
             r == InsertChunks(t.rows, df, 0, chunk_size)
         IN  [table |-> [exists |-> TRUE, rows |-> r.rows],
              total_new |-> r.total_new, skipped |-> Len(df) - r.total_new]

\* ------------------------------------------------------------ loads
NoLast ==
    [op |-> "none", df |-> <<>>, chunk_size |-> 0, new_rows |-> 0,
     skipped |-> 0, raised |-> FALSE, before |-> NoFile]

NoParse ==
    [stem |-> <<>>, lines |-> <<>>, hash_users |-> FALSE, io_error |-> FALSE,
     io_at |-> 0, i |-> 0, events |-> <<>>, lens |-> <<>>, pc |-> "idle"]

NoCls == [msg |-> <<>>, done |-> FALSE, plain |-> <<>>, marked |-> <<>>]

NoRun ==
    [path |-> "missing", listing |-> <<>>, unreadable |-> <<>>, unreadable_at |-> 0,
     txt_files |-> <<>>,
     idx |-> 0, all_events |-> <<>>, pc |-> "idle", tunnel |-> "none",
     exc |-> FALSE, calls |-> <<>>, csv0 |-> NoFile, table0 |-> NoTable]

\* A deployment loads into one sink, chosen by the --local flag.
InitLoad ==
    /\ local \in BOOLEAN
    /\ csv = NoFile
    /\ table = NoTable
    /\ last = NoLast
    /\ pf = NoParse
    /\ cls = NoCls
    /\ run = NoRun

LoadToCsv(df) ==
    LET r == LoadToCsvOp(csv, df)
    IN  /\ csv' = r.file
        /\ last' = [op |-> "csv", df |-> df, chunk_size |-> 0,
                    new_rows |-> r.new_rows, skipped |-> r.skipped,
                    raised |-> r.raised, before |-> csv]
        /\ UNCHANGED <<local, table, pf, cls, run>>

LoadToPostgres(df, chunk_size) ==
    LET r == LoadToPostgresOp(table, df, chunk_size)
    IN  /\ table' = r.table
        /\ last' = [op |-> "pg", df |-> df, chunk_size |-> chunk_size,
                    new_rows |-> r.total_new, skipped |-> r.skipped,
                    raised |-> FALSE, before |-> table]
        /\ UNCHANGED <<local, csv, pf, cls, run>>

Batches == SeqsUpTo(LoadEvents, MaxBatch)

NextLoad ==
    \/ \E df \in Batches : local /\ LoadToCsv(df)
    \/ \E df \in Batches, c \in 1..MaxChunk : ~local /\ LoadToPostgres(df, c)

SpecLoad == InitLoad /\ [][NextLoad]_vars

\* ------------------------------------------------------------ loader claims
NoDuplicateRows(rows) ==
    \A i, j \in 1..Len(rows) : i # j => rows[i] # rows[j]

IsPrefix(s, t) == Len(s) <= Len(t) /\ SubSeq(t, 1, Len(s)) = s

RowSet(rows) == { rows[i] : i \in 1..Len(rows) }

\* C1: after any sequence of loads into a sink that started absent, no two
\* stored rows share the same (timestamp, group_name, subject, event_type).
C1_KeyUniqueness ==
    /\ NoDuplicateRows(csv.rows)
    /\ NoDuplicateRows(table.rows)

\* C2: after a load of batch B, loading B again leaves the number of stored
\* rows as it is and reports 0 new rows and Len(B) skipped.
C2_DedupIdempotence ==
    /\ (last.op = "csv" /\ ~last.raised) =>
          LET again == LoadToCsvOp(csv, last.df)
          IN  /\ ~again.raised
              /\ Len(again.file.rows) = Len(csv.rows)
              /\ again.new_rows = 0
              /\ again.skipped = Len(last.df)
    /\ last.op = "pg" =>
          \A c \in 1..MaxChunk :
              LET again == LoadToPostgresOp(table, last.df, c)
              IN  /\ Len(again.table.rows) = Len(table.rows)
                  /\ again.total_new = 0
                  /\ again.skipped = Len(last.df)

\* C3: a load_to_csv on an existing destination keeps the rows stored before
\* it, in their order and ahead of every new row, and writes a new row only
\* for a key that was not stored before.
C3_CsvKeepsExistingRows ==
    (last.op = "csv" /\ last.before.exists /\ ~last.raised) =>
        /\ IsPrefix(last.before.rows, csv.rows)
        /\ \A i \in (Len(last.before.rows) + 1)..Len(csv.rows) :
               csv.rows[i] \notin RowSet(last.before.rows)

\* C4: load_to_postgres returns the number of rows the table grew by, which is
\* the number of distinct keys of the batch that were absent before the load,
\* and the resulting table is the same for every chunk size.
C4_PostgresCount ==
    last.op = "pg" =>
        /\ last.new_rows = Len(table.rows) - Len(last.before.rows)
        /\ last.new_rows =
              Cardinality({ SqlRow(last.df[i]) : i \in 1..Len(last.df) }
                          \ RowSet(last.before.rows))
        /\ last.skipped = Len(last.df) - last.new_rows
        /\ \A c \in 1..(MaxChunk + 1) :
               LoadToPostgresOp(last.before, last.df, c).table = table

\* C4 witness: a batch holding the same key twice, split over two chunks,
\* loaded into a table that already holds rows, one of them inserted.
C4_Witness ==
    /\ last.op = "pg"
    /\ last.chunk_size = 1
    /\ Len(last.df) = 2
    /\ last.df[1] = last.df[2]
    /\ last.before.rows # <<>>
    /\ last.new_rows = 1

\* C5: a load of an empty batch raises nothing, reports zero inserted and
\* leaves the stored rows as they were.
C5_EmptyBatchTolerated ==
    (last.op # "none" /\ last.df = <<>>) =>
        /\ ~last.raised
        /\ last.new_rows = 0
        /\ IF last.op = "csv" THEN csv.rows = last.before.rows
                              ELSE table = last.before

\* ------------------------------------------------------------ line classifier
\* Characters of a message. "L" is U+200E, "N" is U+202F, "J", "X" and "M" are
\* the phrases of JOINED_RE, LEFT_RE and ADDED_BY_MEMBER_RE (after \s+), and
\* ADDED_BY_ADMIN_RE's literal prefix is "Se", " ", "M".
LRM == "L"
WS == {" ", "N"}
JoinedPhrase == "J"
LeftPhrase == "X"
AddedPhrase == "M"
AdminPrefix == <<"Se", " ", "M">>

AllWs(t) == \A i \in 1..Len(t) : t[i] \in WS

MinOf(S) == CHOOSE x \in S : \A y \in S : x <= y

\* _USER_RE matched on msg[s..e]: \+[\d\s]+? or ~[\s\u202f].+?
MatchUser(msg, s, e) ==
    /\ s >= 1 /\ e <= Len(msg)
    /\ \/ /\ msg[s] = "+"
          /\ e >= s + 1
          /\ \A i \in (s + 1)..e : msg[i] \in Digits \cup WS
       \/ /\ msg[s] = "~"
          /\ e >= s + 2
          /\ msg[s + 1] \in WS

\* \s+ then the phrase, right after position e: the phrase's position, or 0.
PhraseAfter(msg, e, phrase) ==
    LET ps == { p \in (e + 2)..Len(msg) :
                   msg[p] = phrase /\ AllWs(SubSeq(msg, e + 1, p - 1)) }
    IN  IF ps = {} THEN 0 ELSE MinOf(ps)

NoMatch == [ok |-> FALSE, user |-> <<>>, rest |-> <<>>]

\* ^[\u200e]?(_USER_RE)\s+<phrase>, and with needRest a following (.+).
\* The lazy quantifier of _USER_RE stops at the first end that lets the rest
\* of the pattern match.
MatchUserPhrase(msg, phrase, needRest) ==
    LET s  == IF msg # <<>> /\ Head(msg) = LRM THEN 2 ELSE 1
        es == { e \in s..Len(msg) :
                   /\ MatchUser(msg, s, e)
                   /\ PhraseAfter(msg, e, phrase) # 0
                   /\ needRest => PhraseAfter(msg, e, phrase) < Len(msg) }
    IN  IF s > Len(msg) \/ es = {}
        THEN NoMatch
        ELSE LET e == MinOf(es)
             IN  [ok |-> TRUE, user |-> SubSeq(msg, s, e),
                  rest |-> SubSeq(msg, PhraseAfter(msg, e, phrase) + 1, Len(msg))]

\* \s*\.?\s*$
AdminTail(t) ==
    \E i \in 0..Len(t) : \E d \in {0, 1} :
        /\ i + d <= Len(t)
        /\ AllWs(SubSeq(t, 1, i))
        /\ d = 1 => t[i + 1] = "."
        /\ AllWs(SubSeq(t, i + d + 1, Len(t)))

JOINED_RE(msg) == MatchUserPhrase(msg, JoinedPhrase, FALSE)

LEFT_RE(msg) == MatchUserPhrase(msg, LeftPhrase, FALSE)

\* ^<AdminPrefix>(_USER_RE)\s*\.?\s*$
ADDED_BY_ADMIN_RE(msg) ==
    LET s  == Len(AdminPrefix) + 1
        es == { e \in s..Len(msg) :
                   /\ MatchUser(msg, s, e)
                   /\ AdminTail(SubSeq(msg, e + 1, Len(msg))) }
    IN  IF Len(msg) < s \/ SubSeq(msg, 1, s - 1) # AdminPrefix \/ es = {}
        THEN NoMatch
        ELSE [ok |-> TRUE, user |-> SubSeq(msg, s, MinOf(es)), rest |-> <<>>]

ADDED_BY_MEMBER_RE(msg) == MatchUserPhrase(msg, AddedPhrase, TRUE)

\* ------------------------------------------------------------ identifiers
RemoveWs(t) == SelectSeq(t, LAMBDA c : c \notin WS)

RECURSIVE LStrip(_, _)
LStrip(t, chars) ==
    IF t # <<>> /\ Head(t) \in chars THEN LStrip(Tail(t), chars) ELSE t

RECURSIVE RStrip(_, _)
RStrip(t, chars) ==
    IF t # <<>> /\ t[Len(t)] \in chars
    THEN RStrip(SubSeq(t, 1, Len(t) - 1), chars) ELSE t

Strip(t, chars) == RStrip(LStrip(t, chars), chars)

\* re.sub(r"\s+", "", x).strip("\u200e")
Normalize(x) == Strip(RemoveWs(x), {LRM})

\* hash_phone: the 16 hex characters of the SHA-256 digest of the normalized
\* identifier, modelled as an injective tag on it.
hash_phone(phone) == <<"sha256:">> \o Normalize(phone)

identify(x, hash_users) == IF hash_users THEN hash_phone(x) ELSE Normalize(x)

\* ------------------------------------------------------------ added users
\* The end of a delimiter \s+y\s+ or ,\s* starting at position i of t, or 0.
DelimiterEnd(t, i) ==
    LET WsRunEnd(j) ==   \* last position of the whitespace run starting at j
            MinOf({ k \in (j - 1)..Len(t) :
                       k = Len(t) \/ t[k + 1] \notin WS })
    IN  IF t[i] \in WS
        THEN LET a == WsRunEnd(i)
             IN  IF a + 2 <= Len(t) /\ t[a + 1] = "y" /\ t[a + 2] \in WS
                 THEN WsRunEnd(a + 2) ELSE 0
        ELSE IF t[i] = "," THEN WsRunEnd(i + 1) ELSE 0

\* re.split(r"\s+y\s+|,\s*", t)
RECURSIVE SplitFrom(_, _, _)
SplitFrom(t, from, i) ==
    IF i > Len(t)
    THEN << SubSeq(t, from, Len(t)) >>
    ELSE LET e == DelimiterEnd(t, i)
         IN  IF e = 0
             THEN SplitFrom(t, from, i + 1)
             ELSE << SubSeq(t, from, i - 1) >> \o SplitFrom(t, e + 1, e + 1)

\* re.search(r"(\+[\d\s]+)", part): the leftmost "+" followed by a digit or a
\* whitespace, with the whole run (greedy); <<>> when there is none.
PhoneSearch(part) ==
    LET ps == { p \in 1..(Len(part) - 1) :
                   part[p] = "+" /\ part[p + 1] \in Digits \cup WS }
    IN  IF ps = {}
        THEN <<>>
        ELSE LET p == MinOf(ps)
                 e == MinOf({ k \in (p + 1)..Len(part) :
                                 k = Len(part) \/ part[k + 1] \notin Digits \cup WS })
             IN  SubSeq(part, p, e)

RECURSIVE UsersOfParts(_)
UsersOfParts(parts) ==
    IF parts = <<>>
    THEN <<>>
    ELSE LET part  == Strip(Strip(Head(parts), WS), {LRM})
             phone == PhoneSearch(part)
             user  == IF phone # <<>> THEN << Strip(phone, WS) >>
                      ELSE IF part # <<>> THEN << part >> ELSE <<>>
         IN  user \o UsersOfParts(Tail(parts))

parse_added_users(text) == UsersOfParts(SplitFrom(RStrip(text, {"."}), 1, 1))

\* ------------------------------------------------------------ one message
NoEvent == [type |-> "none", subjects |-> <<>>]

\* The if-chain of parse_chat_file on one message: the event type and the
\* raw subjects, in the order JOINED, LEFT, ADDED_BY_ADMIN, ADDED_BY_MEMBER.
ClassifyMessage(message) ==
    IF JOINED_RE(message).ok
    THEN [type |-> "joined", subjects |-> << JOINED_RE(message).user >>]
    ELSE IF LEFT_RE(message).ok
    THEN [type |-> "left", subjects |-> << LEFT_RE(message).user >>]
    ELSE IF ADDED_BY_ADMIN_RE(message).ok
    THEN [type |-> "added", subjects |-> << ADDED_BY_ADMIN_RE(message).user >>]
    ELSE IF ADDED_BY_MEMBER_RE(message).ok
    THEN [type |-> "added",
          subjects |-> parse_added_users(ADDED_BY_MEMBER_RE(message).rest)]
    ELSE NoEvent

\* ------------------------------------------------------------ transcript parser
\* A transcript line: stamp is "none" when the line does not start with the
\* timestamp pattern of LINE_RE, "bad" when it does but the digits are no date
\* (strptime raises ValueError), else the minute; text is what follows " - ".
Line(stamp, text) == [stamp |-> stamp, text |-> text]

\* LINE_RE.match(line): group 2 is (.+) after \s*-\s*.
LINE_RE(line) ==
    LET t == LStrip(line.text, WS)
    IN  IF line.stamp = "none" \/ line.text = <<>>
        THEN [ok |-> FALSE, timestamp_str |-> "none", message |-> <<>>]
        ELSE [ok |-> TRUE, timestamp_str |-> line.stamp,
              message |-> IF t = <<>> THEN << line.text[Len(line.text)] >> ELSE t]

\* datetime.strptime(timestamp_str, "%d/%m/%Y, %H:%M")
Strptime(timestamp_str) ==
    [ok |-> timestamp_str # "bad", value |-> << timestamp_str >>]

PrefixP1 == "Chat de WhatsApp con "
PrefixP2 == "WhatsApp Chat with "

\* extract_group_name on the file name's stem.
extract_group_name(stem) ==
    IF stem # <<>> /\ Head(stem) \in {PrefixP1, PrefixP2} THEN Tail(stem) ELSE stem

\* The events one line appends, in order.
LineEvents(line, group_name, hash_users) ==
    LET lm == LINE_RE(line)
        ts == Strptime(lm.timestamp_str)
        c  == ClassifyMessage(lm.message)
    IN  IF ~lm.ok \/ ~ts.ok
        THEN <<>>
        ELSE [k \in 1..Len(c.subjects) |->
                 Event(ts.value, group_name,
                       identify(c.subjects[k], hash_users), << c.type >>)]

\* Mutant: the ValueError of strptime is not caught.
LoopBodyNoCatch(p, line) ==
    IF LINE_RE(line).ok /\ ~Strptime(LINE_RE(line).timestamp_str).ok
    THEN [p EXCEPT !.pc = "raised"]
    ELSE LET ev == p.events \o
                   LineEvents(line, extract_group_name(p.stem), p.hash_users)
         IN  [p EXCEPT !.events = ev, !.lens = Append(@, Len(ev)), !.i = @ + 1]

\* One turn of "for line in f": every path ends in continue.
LoopBody(p, line) ==
    LET ev == p.events \o LineEvents(line, extract_group_name(p.stem), p.hash_users)
    IN  [p EXCEPT !.events = ev, !.lens = Append(@, Len(ev)), !.i = @ + 1]

\* open(filepath): raises OSError when the file cannot be opened.
OpenStep(p) ==
    IF p.io_error /\ p.io_at = 0
    THEN [p EXCEPT !.pc = "raised"]
    ELSE [p EXCEPT !.pc = "loop", !.i = 1]

\* Reading the next line: raises when the read fails, else runs the loop body.
LineStep(p) ==
    IF p.io_error /\ p.io_at = p.i
    THEN [p EXCEPT !.pc = "raised"]
    ELSE LoopBody(p, p.lines[p.i])

ParseOpen ==
    /\ pf.pc = "open"
    /\ pf' = OpenStep(pf)
    /\ UNCHANGED <<local, csv, table, last, cls, run>>

ParseLine ==
    /\ pf.pc = "loop"
    /\ pf.i <= Len(pf.lines)
    /\ pf' = LineStep(pf)
    /\ UNCHANGED <<local, csv, table, last, cls, run>>

\* return events
ParseReturn ==
    /\ pf.pc = "loop"
    /\ pf.i > Len(pf.lines)
    /\ pf' = [pf EXCEPT !.pc = "returned"]
    /\ UNCHANGED <<local, csv, table, last, cls, run>>

\* A whole call of parse_chat_file, from a call state with pc = "open".
RECURSIVE ParseLoop(_)
ParseLoop(p) ==
    IF p.pc # "loop" THEN p
    ELSE IF p.i > Len(p.lines) THEN [p EXCEPT !.pc = "returned"]
    ELSE ParseLoop(LineStep(p))

parse_chat_file(p) == ParseLoop(OpenStep(p))

\* Longest transcript parsed.
MaxLines == 2

SampleLines ==
    { Line("none", <<"a">>),
      Line("bad", <<"+", "1", " ", "J">>),
      Line("t1", <<"a", " ", "a">>),
      Line("t1", <<"+", "1", " ", "J">>),
      Line("t1", <<"L", "~", " ", "a", " ", "X">>),
      Line("t1", <<"Se", " ", "M", "~", " ", "a", ".">>),
      Line("t2", <<"+", "1", " ", "M", "+", "1", ",", " ", "~", " ", "a",
                   " ", "y", " ", "+", "2">>) }

InitParse ==
    /\ local \in BOOLEAN
    /\ csv = NoFile
    /\ table = NoTable
    /\ last = NoLast
    /\ cls = NoCls
    /\ run = NoRun
    /\ \E lines \in SeqsUpTo(SampleLines, MaxLines), err \in BOOLEAN :
       \E at \in (IF err THEN 0..Len(lines) ELSE {0}) :
          pf = [stem |-> <<PrefixP1, "g">>, lines |-> lines,
                hash_users |-> ~local, io_error |-> err, io_at |-> at,
                i |-> 0, events |-> <<>>, lens |-> <<>>, pc |-> "open"]

NextParse == ParseOpen \/ ParseLine \/ ParseReturn

SpecParse == InitParse /\ [][NextParse]_vars

\* A line that fails the timestamp prefix, whose date fails to parse, or whose
\* message matches none of the four patterns.
IsIgnoredLine(line) ==
    \/ ~LINE_RE(line).ok
    \/ ~Strptime(LINE_RE(line).timestamp_str).ok
    \/ /\ ~JOINED_RE(LINE_RE(line).message).ok
       /\ ~LEFT_RE(LINE_RE(line).message).ok
       /\ ~ADDED_BY_ADMIN_RE(LINE_RE(line).message).ok
       /\ ~ADDED_BY_MEMBER_RE(LINE_RE(line).message).ok

EventsOfLines(lines, group_name, hash_users) ==
    Concat([k \in 1..Len(lines) |-> LineEvents(lines[k], group_name, hash_users)])

\* C8: a parse raises only when the file is unreadable; an ignored line adds
\* no event, and the result is what the transcript without its ignored lines
\* gives.
C8_ParserTolerance ==
    /\ pf.pc = "raised" => pf.io_error
    /\ \A k \in 1..Len(pf.lens) :
          IsIgnoredLine(pf.lines[k]) =>
              pf.lens[k] = (IF k = 1 THEN 0 ELSE pf.lens[k - 1])
    /\ pf.pc = "returned" =>
          /\ Len(pf.lens) = Len(pf.lines)
          /\ pf.events =
                EventsOfLines(SelectSeq(pf.lines, LAMBDA l : ~IsIgnoredLine(l)),
                              extract_group_name(pf.stem), pf.hash_users)

\* C8 witness: a returned parse of a line with an unparsable date followed by
\* a line that gave events.
C8_Witness ==
    /\ pf.pc = "returned"
    /\ Len(pf.lines) = 2
    /\ pf.lines[1].stamp = "bad"
    /\ pf.lens = <<0, 1>>

\* ------------------------------------------------------------ leading mark
Prefixes == { <<>>, <<"L">>, <<"a">> }

Users ==
    { <<"+", "1">>, <<"+", "1", " ", "2">>, <<"~", " ", "a">>, <<"~", "N", "a">>,
      <<"~", "a">>, <<"a">>, <<"+">> }

Seps == { <<>>, <<" ">>, <<" ", " ">> }

Phrases == { <<JoinedPhrase>>, <<LeftPhrase>>, <<AddedPhrase>>, <<"a">> }

Tails ==
    { <<>>, <<"+", "2">>, <<"~", " ", "b">>, <<"+", "2", ",", "~", " ", "b">>,
      <<"+", "2", " ", "y", " ", "+", "1">>, <<".">>, <<"a">> }

AdminTails == { <<>>, <<".">>, <<" ", ".", " ">>, <<".", ".">>, <<" ", "a">> }

Messages ==
    { p \o u \o s \o ph \o t :
        p \in Prefixes, u \in Users, s \in Seps, ph \in Phrases, t \in Tails }
    \cup { p \o AdminPrefix \o u \o t : p \in Prefixes, u \in Users, t \in AdminTails }

InitClassify ==
    /\ local \in BOOLEAN
    /\ csv = NoFile
    /\ table = NoTable
    /\ last = NoLast
    /\ pf = NoParse
    /\ run = NoRun
    /\ \E m \in Messages :
          cls = [msg |-> m, done |-> FALSE, plain |-> NoEvent, marked |-> NoEvent]

\* The identified subjects of a classified message.
Identified(c, hash_users) ==
    [type |-> c.type,
     subjects |-> [k \in 1..Len(c.subjects) |-> identify(c.subjects[k], hash_users)]]

Classify ==
    /\ ~cls.done
    /\ cls' = [cls EXCEPT
                 !.done = TRUE,
                 !.plain = Identified(ClassifyMessage(cls.msg), ~local),
                 !.marked = Identified(ClassifyMessage(<<LRM>> \o cls.msg), ~local)]
    /\ UNCHANGED <<local, csv, table, last, pf, run>>

NextClassify == Classify

SpecClassify == InitClassify /\ [][NextClassify]_vars

\* C10: a message that classifies as one of the four events and does not
\* itself start with U+200E classifies, behind one leading U+200E, to the same
\* event type with the same subjects.
C10_LeadingMarkIgnored ==
    (cls.done /\ cls.plain.type # "none" /\ Head(cls.msg) # LRM) =>
        cls.marked = cls.plain

\* ------------------------------------------------------------ orchestrator
\* A directory entry (every file of the pool holds at least one line, so a
\* read can fail at line 1): its name as characters, the suffix being one token, and
\* the lines of the file.
Entry(name, lines) == [name |-> name, lines |-> lines]

\* Code points deciding the order of Python's str comparison on the names.
CodePoint(c) ==
    CASE c = " " -> 32
      [] c = ".csv" -> 46
      [] c = ".txt" -> 47
      [] c = "1" -> 49
      [] c = PrefixP1 -> 67
      [] c = PrefixP2 -> 87
      [] c = "a" -> 97
      [] c = "b" -> 98
      [] c = "g" -> 103

\* a < b on names, as sorted() compares the paths of one directory.
RECURSIVE NameLess(_, _)
NameLess(a, b) ==
    IF b = <<>> THEN FALSE
    ELSE IF a = <<>> THEN TRUE
    ELSE IF Head(a) # Head(b) THEN CodePoint(Head(a)) < CodePoint(Head(b))
    ELSE NameLess(Tail(a), Tail(b))

RECURSIVE SortedInsert(_, _)
SortedInsert(sorted, e) ==
    IF sorted = <<>> THEN << e >>
    ELSE IF NameLess(e.name, Head(sorted).name) THEN << e >> \o sorted
    ELSE << Head(sorted) >> \o SortedInsert(Tail(sorted), e)

RECURSIVE Sorted(_)
Sorted(files) ==
    IF files = <<>> THEN <<>>
    ELSE SortedInsert(Sorted(SubSeq(files, 1, Len(files) - 1)), files[Len(files)])

\* input_path.glob("*.txt"), in the order the directory lists its entries.
GlobTxt(listing) == SelectSeq(listing, LAMBDA e : e.name[Len(e.name)] = ".txt")

\* Path(filepath).stem
Stem(name) == SubSeq(name, 1, Len(name) - 1)

\* The call parse_chat_file(str(txt_file), hash_users=not local) on r's file f.
ParseCall(r, f, is_local) ==
    parse_chat_file(
        [stem |-> Stem(f.name), lines |-> f.lines, hash_users |-> ~is_local,
         io_error |-> (f.name = r.unreadable), io_at |-> r.unreadable_at,
         i |-> 0, events |-> <<>>, lens |-> <<>>, pc |-> "open"])

\* Mutant: the glob result is used in listing order, without sorted().
StartStepUnsorted(r) ==
    IF r.path = "dir"
    THEN IF GlobTxt(r.listing) = <<>>
         THEN [r EXCEPT !.pc = "returned"]
         ELSE [r EXCEPT !.txt_files = GlobTxt(r.listing), !.idx = 1, !.pc = "parse"]
    ELSE IF r.path = "file"
    THEN [r EXCEPT !.txt_files = r.listing, !.idx = 1, !.pc = "parse"]
    ELSE [r EXCEPT !.pc = "exited"]

\* Lines 273-285: the files to parse, or the early return / sys.exit(1).
StartStep(r) ==
    IF r.path = "dir"
    THEN IF Sorted(GlobTxt(r.listing)) = <<>>
         THEN [r EXCEPT !.pc = "returned"]
         ELSE [r EXCEPT !.txt_files = Sorted(GlobTxt(r.listing)),
                        !.idx = 1, !.pc = "parse"]
    ELSE IF r.path = "file"
    THEN [r EXCEPT !.txt_files = r.listing, !.idx = 1, !.pc = "parse"]
    ELSE [r EXCEPT !.pc = "exited"]

\* Mutant: no df.empty check before the load.
FrameStepNoEmptyCheck(r, is_local) ==
    [r EXCEPT !.pc = IF is_local THEN "load_csv" ELSE "tunnel"]

\* Lines 293-304: df = pd.DataFrame(all_events); return when df.empty, else
\* go to the sink the mode selects.
FrameStep(r, is_local) ==
    IF r.all_events = <<>>
    THEN [r EXCEPT !.pc = "returned"]
    ELSE [r EXCEPT !.pc = IF is_local THEN "load_csv" ELSE "tunnel"]

RunStart ==
    /\ run.pc = "start"
    /\ run' = StartStep(run)
    /\ UNCHANGED <<local, csv, table, last, pf, cls>>

\* One turn of "for txt_file in txt_files": an unreadable file raises out of
\* run_extraction.
RunParseFile ==
    /\ run.pc = "parse"
    /\ run.idx <= Len(run.txt_files)
    /\ LET p == ParseCall(run, run.txt_files[run.idx], local)
       IN  run' = IF p.pc = "raised"
                  THEN [run EXCEPT !.pc = "raised"]
                  ELSE [run EXCEPT !.all_events = @ \o p.events, !.idx = @ + 1]
    /\ UNCHANGED <<local, csv, table, last, pf, cls>>

RunFrame ==
    /\ run.pc = "parse"
    /\ run.idx > Len(run.txt_files)
    /\ run' = FrameStep(run, local)
    /\ UNCHANGED <<local, csv, table, last, pf, cls>>

\* load_to_csv(df), then the final print.
RunLoadCsv ==
    /\ run.pc = "load_csv"
    /\ LET r == LoadToCsvOp(csv, run.all_events)
       IN  /\ csv' = r.file
           /\ run' = [run EXCEPT !.calls = Append(@, "load_to_csv"),
                                 !.pc = IF r.raised THEN "raised" ELSE "returned"]
    /\ UNCHANGED <<local, table, last, pf, cls>>

\* tunnel = get_ssh_tunnel(): the constructor may raise (an unusable key file).
RunGetTunnel ==
    /\ run.pc = "tunnel"
    /\ \E fails \in BOOLEAN :
          run' = [run EXCEPT !.calls = Append(@, "get_ssh_tunnel"),
                             !.tunnel = IF fails THEN "none" ELSE "created",
                             !.pc = IF fails THEN "raised" ELSE "tunnel_start"]
    /\ UNCHANGED <<local, csv, table, last, pf, cls>>

\* tunnel.start(), before the try block: a failure raises out of
\* run_extraction at once.
RunTunnelStart ==
    /\ run.pc = "tunnel_start"
    /\ \E fails \in BOOLEAN :
          run' = [run EXCEPT !.calls = Append(@, "tunnel.start"),
                             !.tunnel = IF fails THEN "start_failed" ELSE "started",
                             !.pc = IF fails THEN "raised" ELSE "engine"]
    /\ UNCHANGED <<local, csv, table, last, pf, cls>>

\* engine = get_engine(tunnel.local_bind_port), inside try.
RunGetEngine ==
    /\ run.pc = "engine"
    /\ \E fails \in BOOLEAN :
          run' = [run EXCEPT !.calls = Append(@, "get_engine"),
                             !.exc = fails,
                             !.pc = IF fails THEN "finally" ELSE "load_pg"]
    /\ UNCHANGED <<local, csv, table, last, pf, cls>>

\* load_to_postgres(df, engine), inside try. It may raise on connecting
\* (nothing done), or in an insert after ensure_table committed the table (the
\* inserts are not committed), or complete.
RunLoadPostgres ==
    /\ run.pc = "load_pg"
    /\ \E outcome \in {"connect_fails", "insert_fails", "ok"}, c \in 1..MaxChunk :
          /\ table' = CASE outcome = "connect_fails" -> table
                        [] outcome = "insert_fails" -> EnsureTable(table)
                        [] outcome = "ok" ->
                               LoadToPostgresOp(table, run.all_events, c).table
          /\ run' = [run EXCEPT !.calls = Append(@, "load_to_postgres"),
                                !.exc = (outcome # "ok"),
                                !.pc = "finally"]
    /\ UNCHANGED <<local, csv, last, pf, cls>>

\* finally: tunnel.stop(); then the pending exception goes on, or the run ends.
RunFinally ==
    /\ run.pc = "finally"
    /\ run' = [run EXCEPT !.calls = Append(@, "tunnel.stop"),
                          !.tunnel = "stopped",
                          !.pc = IF run.exc THEN "raised" ELSE "returned"]
    /\ UNCHANGED <<local, csv, table, last, pf, cls>>

\* Most entries a directory holds.
MaxFiles == 2

JoinLine == Line("t1", <<"+", "1", " ", "J">>)
LeftLine == Line("t2", <<"~", " ", "a", " ", "X">>)
AddLine == Line("t2", <<"+", "1", " ", "M", "+", "2", ",", " ", "~", " ", "b">>)
ChatLine == Line("t1", <<"a", " ", "a">>)

EntryPool ==
    { Entry(<<"a", ".txt">>, <<JoinLine, ChatLine, AddLine>>),
      Entry(<<"a", " ", "b", ".txt">>, <<LeftLine>>),
      Entry(<<"a", "b", ".txt">>, <<ChatLine>>),
      Entry(<<PrefixP1, "a", ".txt">>, <<AddLine, JoinLine>>),
      Entry(<<"a", ".csv">>, <<JoinLine>>) }

\* The orders in which a directory may list the entries of set S.
Listings(S) ==
    { l \in [1..Cardinality(S) -> S] : \A e \in S : \E i \in DOMAIN l : l[i] = e }

SomeRow ==
    [timestamp |-> <<"t1">>, group_name |-> <<"a">>,
     user_phone_hash |-> <<"~", "z">>, event_type |-> <<"left">>]

InitRun ==
    /\ local \in BOOLEAN
    /\ last = NoLast
    /\ pf = NoParse
    /\ cls = NoCls
    /\ \E preloaded \in BOOLEAN :
          /\ csv = IF preloaded THEN [exists |-> TRUE, rows |-> << SomeRow >>]
                                ELSE NoFile
          /\ table = IF preloaded THEN [exists |-> TRUE, rows |-> << SomeRow >>]
                                  ELSE NoTable
    /\ \E kind \in {"missing", "file", "dir"} :
       \E S \in { T \in SUBSET EntryPool :
                     CASE kind = "missing" -> T = {}
                       [] kind = "file" -> Cardinality(T) = 1
                       [] kind = "dir" -> Cardinality(T) <= MaxFiles } :
       \E listing \in Listings(S) :
       \E bad \in { <<>> } \cup { e.name : e \in S } :
       \E at \in (IF bad = <<>> THEN {0} ELSE {0, 1}) :
          run = [path |-> kind, listing |-> listing, unreadable |-> bad,
                 unreadable_at |-> at, txt_files |-> <<>>, idx |-> 0, all_events |-> <<>>,
                 pc |-> "start", tunnel |-> "none", exc |-> FALSE,
                 calls |-> <<>>, csv0 |-> csv, table0 |-> table]

NextRun ==
    \/ RunStart
    \/ RunParseFile
    \/ RunFrame
    \/ RunLoadCsv
    \/ RunGetTunnel
    \/ RunTunnelStart
    \/ RunGetEngine
    \/ RunLoadPostgres
    \/ RunFinally

SpecRun == InitRun /\ [][NextRun]_vars

\* ------------------------------------------------------------ orchestrator claims
\* C6: in a relational run the load starts with the tunnel started, and once
\* tunnel.start() was called the run ends, returning or raising, only with
\* the tunnel stopped; a failure is raised, not swallowed.
C6_TunnelScoped ==
    /\ run.pc = "load_pg" => run.tunnel = "started"
    /\ (run.pc \in {"returned", "raised"} /\ run.tunnel # "none") =>
           run.tunnel = "stopped"
    /\ run.pc = "returned" => ~run.exc

SinkPcs == {"load_csv", "tunnel", "tunnel_start", "engine", "load_pg", "finally"}

\* C7: a sink call is made or about to be made only when the path exists,
\* every file of the list was parsed to its end and the aggregate holds an
\* event; while no sink call was made, the file, the table and the tunnel are
\* as they were at the start.
C7_SinkOnlyAfterFullParse ==
    /\ (run.calls # <<>> \/ run.pc \in SinkPcs) =>
           /\ run.path # "missing"
           /\ run.txt_files # <<>>
           /\ run.idx = Len(run.txt_files) + 1
           /\ \A k \in 1..Len(run.txt_files) :
                  run.txt_files[k].name # run.unreadable
           /\ run.all_events # <<>>
    /\ run.calls = <<>> =>
           /\ csv = run.csv0
           /\ table = run.table0
           /\ run.tunnel = "none"

\* C7 witness: the second file of the list is unreadable after the first gave
\* events; the run raised and the existing file is untouched.
C7_Witness ==
    /\ run.pc = "raised"
    /\ run.idx = 2
    /\ run.all_events # <<>>
    /\ run.calls = <<>>
    /\ csv.exists
    /\ csv = run.csv0

\* The events of the first n files of the list, file after file.
AggregateOf(files, n, is_local) ==
    Concat([k \in 1..n |->
               EventsOfLines(files[k].lines,
                             extract_group_name(Stem(files[k].name)), ~is_local)])

\* C9: for a directory the file list holds the *.txt entries in ascending
\* order of name, whatever order the directory lists them in, and the
\* aggregate is the concatenation of the per-file event lists of the files
\* parsed so far, in that order.
C9_DeterministicOrder ==
    (run.path = "dir" /\ run.pc \notin {"idle", "start"}) =>
        /\ \A i, j \in 1..Len(run.txt_files) :
               i < j => NameLess(run.txt_files[i].name, run.txt_files[j].name)
        /\ RowSet(run.txt_files) =
               { e \in RowSet(run.listing) : e.name[Len(e.name)] = ".txt" }
        /\ run.all_events =
               AggregateOf(run.txt_files,
                           IF run.txt_files = <<>> THEN 0 ELSE run.idx - 1, local)
        /\ run.pc \in SinkPcs => run.idx = Len(run.txt_files) + 1

\* C9 witness: a directory that lists two transcripts in descending order of
\* name, both parsed, the aggregate about to be loaded.
C9_Witness ==
    /\ run.path = "dir"
    /\ run.pc \in {"load_csv", "tunnel"}
    /\ Len(run.txt_files) = 2
    /\ GlobTxt(run.listing) # run.txt_files
    /\ Len(run.all_events) >= 3

====
